---- MODULE Spec2Model ----
(***************************************************************************)
(* Model of prepare_paralympics_data (src/activities/solutions/my_code.py) *)
(* and of the call made by the script's main block.  A DataFrame is a      *)
(* record [cols, index, rows]: the column labels in order, the row labels  *)
(* in order, and one function from column label to cell per row.           *)
(*                                                                         *)
(* Cells:                                                                  *)
(*   text that the code inspects character by character ('type', 'start',  *)
(*   'end') is a sequence of one-character strings, NaN is <<"NaN">>;      *)
(*   text that the code only compares ('country', 'Name', 'Code') is a     *)
(*   string, NaN is "NaN";                                                 *)
(*   a float64 count is <<tenths>> (23.0 is <<230>>), NaN is <<>>;         *)
(*   an Int64 is <<n>>, pd.NA is <<>>;                                     *)
(*   a datetime64 is <<year, month, day>>, NaT is <<>>.                    *)
(***************************************************************************)
EXTENDS Integers, Sequences, FiniteSets, TLC

VARIABLES
    df,               \* the caller's raw DataFrame (paralympics_csv_df)
    npc_codes,        \* content of data/npc_codes.csv, columns Code and Name
    df_prepared,      \* the local df_prepared
    npc_codes_csv_df, \* the local npc_codes_csv_df
    prepared_file,    \* content of data/paralympics_prepared.csv
    returned,         \* the value returned to the caller
    pc,               \* the statement prepare_paralympics_data is about to run
    failed_at,        \* the statement that raised, "" when none did
    run,              \* number of the current call, from 1
    prev_returned,    \* what the previous call returned
    prev_file         \* the file the previous call left

vars == <<df, npc_codes, df_prepared, npc_codes_csv_df, prepared_file, returned,
          pc, failed_at, run, prev_returned, prev_file>>

-----------------------------------------------------------------------------
(* Bounds of the model *)

\* largest number of rows of a raw table
MaxRows == 33
\* number of calls of prepare_paralympics_data on the same raw table
MaxRuns == 2

-----------------------------------------------------------------------------
(* Generic helpers *)

Range(s) == {s[i] : i \in 1..Len(s)}

RECURSIVE SeqSum(_)
SeqSum(s) == IF s = <<>> THEN 0 ELSE Head(s) + SeqSum(Tail(s))

RECURSIVE Flatten(_)
Flatten(ss) == IF ss = <<>> THEN <<>> ELSE Head(ss) \o Flatten(Tail(ss))

SetMin(S) == CHOOSE x \in S : \A y \in S : x <= y
SetMax(S) == CHOOSE x \in S : \A y \in S : x >= y

\* position of the first occurrence of x in s, 0 when absent
IndexOf(s, x) ==
    IF x \in Range(s) THEN SetMin({i \in 1..Len(s) : s[i] = x}) ELSE 0

-----------------------------------------------------------------------------
(* Missing-value markers *)

NaNText == <<"NaN">>
NaNName == "NaN"
NaNFloat == <<>>
NA == <<>>
NaT == <<>>

NoFrame == [cols |-> <<>>, index |-> <<>>, rows |-> <<>>]
NoFile == [exists |-> FALSE, header |-> <<>>, records |-> <<>>]

-----------------------------------------------------------------------------
(* str.strip(): removes leading and trailing whitespace, NaN stays NaN *)

Whitespace == {" ", "\t", "\n", "\r", "\f"}

RECURSIVE LStrip(_)
LStrip(s) ==
    IF s # <<>> /\ Head(s) \in Whitespace THEN LStrip(Tail(s)) ELSE s

RECURSIVE RStrip(_)
RStrip(s) ==
    IF s # <<>> /\ s[Len(s)] \in Whitespace
    THEN RStrip(SubSeq(s, 1, Len(s) - 1))
    ELSE s

StrStrip(v) == IF v = NaNText THEN NaNText ELSE RStrip(LStrip(v))

-----------------------------------------------------------------------------
(* pd.to_datetime(series, format='%d/%m/%Y'): the directive patterns of     *)
(* strptime, matched against the whole value.                              *)
(*   %d  3[0-1] | [1-2]\d | 0[1-9] | [1-9] | " "[1-9]                      *)
(*   %m  1[0-2] | 0[1-9] | [1-9]                                           *)
(*   %Y  \d\d\d\d                                                          *)
(* A missing value is not parsed: it becomes NaT, and so does the empty    *)
(* text and each text to_datetime reads as missing.  The result is a       *)
(* datetime64[ns]: a date it cannot hold raises like a malformed one.      *)

Digits == {"0", "1", "2", "3", "4", "5", "6", "7", "8", "9"}

DigitValue(c) ==
    CASE c = "0" -> 0 [] c = "1" -> 1 [] c = "2" -> 2 [] c = "3" -> 3
      [] c = "4" -> 4 [] c = "5" -> 5 [] c = "6" -> 6 [] c = "7" -> 7
      [] c = "8" -> 8 [] c = "9" -> 9

AllDigits(t) == \A i \in 1..Len(t) : t[i] \in Digits

RECURSIVE Number(_)
Number(t) ==
    IF t = <<>> THEN 0
    ELSE 10 * Number(SubSeq(t, 1, Len(t) - 1)) + DigitValue(t[Len(t)])

\* text matched by %d, with its value; 0 when t does not match
DayDirective(t) ==
    CASE Len(t) = 2 /\ AllDigits(t) /\ Number(t) \in 1..31 -> Number(t)
      [] Len(t) = 1 /\ AllDigits(t) /\ Number(t) \in 1..9 -> Number(t)
      [] Len(t) = 2 /\ t[1] = " " /\ t[2] \in Digits /\ DigitValue(t[2]) \in 1..9
           -> DigitValue(t[2])
      [] OTHER -> 0

MonthDirective(t) ==
    CASE Len(t) = 2 /\ AllDigits(t) /\ Number(t) \in 1..12 -> Number(t)
      [] Len(t) = 1 /\ AllDigits(t) /\ Number(t) \in 1..9 -> Number(t)
      [] OTHER -> 0

\* %Y matches four digits; -1 when t does not match
YearDirective(t) ==
    IF Len(t) = 4 /\ AllDigits(t) THEN Number(t) ELSE -1

IsLeap(y) == (y % 4 = 0 /\ y % 100 # 0) \/ y % 400 = 0

DaysInMonth(y, m) ==
    CASE m \in {1, 3, 5, 7, 8, 10, 12} -> 31
      [] m \in {4, 6, 9, 11} -> 30
      [] m = 2 -> IF IsLeap(y) THEN 29 ELSE 28

\* the texts to_datetime reads as a missing value
NatStrings ==
    {<<>>, <<"N", "a", "T">>, <<"n", "a", "t">>, <<"N", "A", "T">>,
     <<"n", "a", "n">>, <<"N", "a", "N">>, <<"N", "A", "N">>}

IsMissingDate(v) == v = NaNText \/ v \in NatStrings

\* the days since 1970-01-01 whose midnight a datetime64[ns] holds
TimestampDays == -106751..106751

\* days since 1970-01-01 of a datetime64 value
EpochDays(ts) ==
    LET y == IF ts[2] <= 2 THEN ts[1] - 1 ELSE ts[1]
        era == y \div 400
        yoe == y - era * 400
        mp == IF ts[2] > 2 THEN ts[2] - 3 ELSE ts[2] + 9
        doy == (153 * mp + 2) \div 5 + ts[3] - 1
        doe == yoe * 365 + yoe \div 4 - yoe \div 100 + doy
    IN  era * 146097 + doe - 719468

\* the fields of the value in '%d/%m/%Y' order
DateFields(v) ==
    LET slashes == {i \in 1..Len(v) : v[i] = "/"}
        i1 == SetMin(slashes)
        i2 == SetMax(slashes)
    IN  <<SubSeq(v, 1, i1 - 1), SubSeq(v, i1 + 1, i2 - 1), SubSeq(v, i2 + 1, Len(v))>>

\* seeded fault: to_datetime(errors='coerce'), unparsable text becomes NaT
ToDatetimeCoerce(v) ==
    IF IsMissingDate(v) THEN [ok |-> TRUE, value |-> NaT]
    ELSE IF Cardinality({i \in 1..Len(v) : v[i] = "/"}) # 2
    THEN [ok |-> TRUE, value |-> NaT]
    ELSE LET f == DateFields(v)
             d == DayDirective(f[1])
             m == MonthDirective(f[2])
             y == YearDirective(f[3])
         IN  IF d = 0 \/ m = 0 \/ y < 0
             THEN [ok |-> TRUE, value |-> NaT]
             ELSE IF d > DaysInMonth(y, m) \/ EpochDays(<<y, m, d>>) \notin TimestampDays
             THEN [ok |-> TRUE, value |-> NaT]
             ELSE [ok |-> TRUE, value |-> <<y, m, d>>]

\* [ok, value]: ok is FALSE where to_datetime raises
ToDatetime(v) ==
    IF IsMissingDate(v) THEN [ok |-> TRUE, value |-> NaT]
    ELSE IF Cardinality({i \in 1..Len(v) : v[i] = "/"}) # 2
    THEN [ok |-> FALSE, value |-> NaT]
    ELSE LET f == DateFields(v)
             d == DayDirective(f[1])
             m == MonthDirective(f[2])
             y == YearDirective(f[3])
         IN  IF d = 0 \/ m = 0 \/ y < 0
             THEN [ok |-> FALSE, value |-> NaT]
             ELSE IF d > DaysInMonth(y, m) \/ EpochDays(<<y, m, d>>) \notin TimestampDays
             THEN [ok |-> FALSE, value |-> NaT]
             ELSE [ok |-> TRUE, value |-> <<y, m, d>>]

\* seeded fault: start - end
DurationReversed(start, end) ==
    IF start = NaT \/ end = NaT THEN NA
    ELSE <<EpochDays(start) - EpochDays(end)>>

\* (end - start).dt.days.astype('Int64'), NaT gives pd.NA
DurationDays(start, end) ==
    IF start = NaT \/ end = NaT THEN NA
    ELSE <<EpochDays(end) - EpochDays(start)>>

-----------------------------------------------------------------------------
(* astype('Int64') of a float64 cell: NaN becomes pd.NA, a value with a    *)
(* fractional part cannot be cast safely and raises.                       *)

AsInt64(v) ==
    IF v = NaNFloat THEN [ok |-> TRUE, value |-> NA]
    ELSE IF v[1] % 10 # 0 THEN [ok |-> FALSE, value |-> NA]
    ELSE [ok |-> TRUE, value |-> <<v[1] \div 10>>]

-----------------------------------------------------------------------------
(* The fixed values of prepare_paralympics_data *)

unwanted_columns == <<"URL", "disabilities_included", "highlights">>
missing_value_rows == <<0, 17, 31>>
columns_to_change ==
    <<"countries", "events", "participants_m", "participants_f", "participants">>
Summer == <<"S", "u", "m", "m", "e", "r">>
summer == <<"s", "u", "m", "m", "e", "r">>
replacement_names ==
    [UK |-> "Great Britain",
     USA |-> "United States of America",
     Korea |-> "Republic of Korea",
     Russia |-> "Russian Federation",
     China |-> "People's Republic of China"]
usecols == <<"Code", "Name">>

-----------------------------------------------------------------------------
(* DataFrame operations *)

RangeIndex(n) == [i \in 1..n |-> i - 1]

\* seeded fault: drop(errors='ignore')
DropIgnoresMissing(axis, labels) == {}

\* DataFrame.drop(errors='raise'): the labels that make it raise KeyError
MissingLabels(axis, labels) == {l \in Range(labels) : l \notin Range(axis)}

\* seeded fault: the last label is left out of the list
DropColumnsKeepLast(f, labels) ==
    LET gone == Range(SubSeq(labels, 1, Len(labels) - 1))
    IN  [cols |-> SelectSeq(f.cols, LAMBDA c : c \notin gone),
         index |-> f.index,
         rows |-> [i \in 1..Len(f.rows) |->
                      [c \in DOMAIN f.rows[i] \ gone |-> f.rows[i][c]]]]

\* DataFrame.drop(columns=labels): a new frame without those columns
DropColumns(f, labels) ==
    [cols |-> SelectSeq(f.cols, LAMBDA c : c \notin Range(labels)),
     index |-> f.index,
     rows |-> [i \in 1..Len(f.rows) |->
                  [c \in DOMAIN f.rows[i] \ Range(labels) |-> f.rows[i][c]]]]

\* seeded fault: drop(inplace=True) on the receiver
DropInPlace(f, labels) ==
    [self |-> DropColumns(f, labels), result |-> DropColumns(f, labels)]

\* what df.drop(columns=labels) leaves in the receiver and what it returns
DataFrameDrop(f, labels) ==
    [self |-> f, result |-> DropColumns(f, labels)]

\* the positions of index whose label is not in labels, in order
RECURSIVE KeptPositions(_, _, _)
KeptPositions(index, labels, i) ==
    IF i > Len(index) THEN <<>>
    ELSE (IF index[i] \in Range(labels) THEN <<>> ELSE <<i>>)
         \o KeptPositions(index, labels, i + 1)

\* DataFrame.drop(index=labels): a new frame without the rows so labelled
DropIndex(f, labels) ==
    LET kept == KeptPositions(f.index, labels, 1)
    IN  [cols |-> f.cols,
         index |-> [k \in 1..Len(kept) |-> f.index[kept[k]]],
         rows |-> [k \in 1..Len(kept) |-> f.rows[kept[k]]]]

\* DataFrame.reset_index(drop=True)
ResetIndex(f) == [f EXCEPT !.index = RangeIndex(Len(f.rows))]

\* df.loc[df[col] == old, col] = new
LocAssign(f, col, old, new) ==
    [f EXCEPT !.rows = [i \in 1..Len(f.rows) |->
        [f.rows[i] EXCEPT ![col] = IF @ = old THEN new ELSE @]]]

\* df[col] = df[col].str.strip()
StripColumn(f, col) ==
    [f EXCEPT !.rows = [i \in 1..Len(f.rows) |->
        [f.rows[i] EXCEPT ![col] = StrStrip(@)]]]

\* df[col] = df[col].astype('Int64') for each col of cols
AstypeInt64(f, cols) ==
    [f EXCEPT !.rows = [i \in 1..Len(f.rows) |->
        [c \in DOMAIN f.rows[i] |->
            IF c \in Range(cols) THEN AsInt64(f.rows[i][c]).value
            ELSE f.rows[i][c]]]]

AstypeRaises(f, cols) ==
    \/ MissingLabels(f.cols, cols) # {}
    \/ \E i \in 1..Len(f.rows) : \E c \in Range(cols) : ~AsInt64(f.rows[i][c]).ok

\* df[col] = pd.to_datetime(df[col], format='%d/%m/%Y')
ToDatetimeColumn(f, col) ==
    [f EXCEPT !.rows = [i \in 1..Len(f.rows) |->
        [f.rows[i] EXCEPT ![col] = ToDatetime(@).value]]]

ToDatetimeRaises(f, col) ==
    \/ col \notin Range(f.cols)
    \/ \E i \in 1..Len(f.rows) : ~ToDatetime(f.rows[i][col]).ok

\* df.columns.get_loc(label), 0-based
GetLoc(cols, label) == IndexOf(cols, label) - 1

\* df.insert(loc, col, values): col becomes the column at 0-based position loc
Insert(f, loc, col, values) ==
    [cols |-> SubSeq(f.cols, 1, loc) \o <<col>> \o SubSeq(f.cols, loc + 1, Len(f.cols)),
     index |-> f.index,
     rows |-> [i \in 1..Len(f.rows) |->
                  [c \in DOMAIN f.rows[i] \cup {col} |->
                      IF c = col THEN values[i] ELSE f.rows[i][c]]]]

\* seeded fault: the rewrite is skipped
ReplaceNothing(v, mapping) == v

\* Series.replace(to_replace=mapping) of one cell
Replace(v, mapping) == IF v \in DOMAIN mapping THEN mapping[v] ELSE v

ReplaceColumn(f, col, mapping) ==
    [f EXCEPT !.rows = [i \in 1..Len(f.rows) |->
        [f.rows[i] EXCEPT ![col] = Replace(@, mapping)]]]

\* the rows of right whose key equals the key of the left row, in right's order
Matches(leftRow, right, left_on, right_on) ==
    SelectSeq(right.rows, LAMBDA r : r[right_on] = leftRow[left_on])

NullRow(right) == [c \in Range(right.cols) |-> NaNName]

\* seeded fault: how='inner'
MergeInner(left, right, left_on, right_on) ==
    LET joined == Flatten([i \in 1..Len(left.rows) |->
            LET m == Matches(left.rows[i], right, left_on, right_on)
            IN  [k \in 1..Len(m) |-> left.rows[i] @@ m[k]]])
    IN  [cols |-> left.cols \o right.cols,
         index |-> RangeIndex(Len(joined)),
         rows |-> joined]

\* left.merge(right, how='left', left_on=..., right_on=...): every left row, in
\* order, once per matching right row, or once with missing right cells
MergeLeft(left, right, left_on, right_on) ==
    LET joined == Flatten([i \in 1..Len(left.rows) |->
            LET m == Matches(left.rows[i], right, left_on, right_on)
            IN  IF m = <<>> THEN <<left.rows[i] @@ NullRow(right)>>
                ELSE [k \in 1..Len(m) |-> left.rows[i] @@ m[k]]])
    IN  [cols |-> left.cols \o right.cols,
         index |-> RangeIndex(Len(joined)),
         rows |-> joined]

\* pd.read_csv(file, usecols=cols)
ReadCsv(file, cols) ==
    [cols |-> SelectSeq(file.header, LAMBDA c : c \in Range(cols)),
     index |-> RangeIndex(Len(file.records)),
     rows |-> [i \in 1..Len(file.records) |->
                  [c \in Range(cols) |-> file.records[i][c]]]]

-----------------------------------------------------------------------------
(* DataFrame.to_csv(path, index=False): every cell as text, a missing cell *)
(* as the empty field, the file opened for writing (truncated).            *)

RECURSIVE NatText(_)
NatText(n) ==
    LET digit == <<"0", "1", "2", "3", "4", "5", "6", "7", "8", "9">>[(n % 10) + 1]
    IN  IF n < 10 THEN <<digit>> ELSE Append(NatText(n \div 10), digit)

IntText(n) == IF n < 0 THEN <<"-">> \o NatText(-n) ELSE NatText(n)

Pad2(n) == IF n < 10 THEN <<"0">> \o NatText(n) ELSE NatText(n)

date_columns == {"start", "end"}
integer_columns == Range(columns_to_change) \cup {"duration"}
character_columns == {"type"}

FormatCell(col, v) ==
    CASE col \in date_columns ->
            IF v = NaT THEN <<>>
            ELSE NatText(v[1]) \o <<"-">> \o Pad2(v[2]) \o <<"-">> \o Pad2(v[3])
      [] col \in integer_columns -> IF v = NA THEN <<>> ELSE IntText(v[1])
      [] col \in character_columns -> IF v = NaNText THEN <<>> ELSE v
      [] OTHER -> IF v = NaNName THEN "" ELSE v

ToCsv(f, index) ==
    [exists |-> TRUE,
     header |-> (IF index THEN <<"">> ELSE <<>>) \o f.cols,
     records |-> [i \in 1..Len(f.rows) |->
         (IF index THEN <<IntText(f.index[i])>> ELSE <<>>)
         \o [k \in 1..Len(f.cols) |-> FormatCell(f.cols[k], f.rows[i][f.cols[k]])]]]

\* seeded fault: the file opened with mode 'a'
AppendFile(old, new) ==
    [exists |-> TRUE,
     header |-> new.header,
     records |-> old.records \o new.records]

\* the file after it is opened with mode 'w' and new is written
WriteFile(old, new) == new

-----------------------------------------------------------------------------
(* The inputs: raw tables as read_csv returns them (a RangeIndex, a missing *)
(* field as NaN) and reference files.                                      *)

winter_trailing == <<"w", "i", "n", "t", "e", "r", " ">>
winter_leading == <<" ", "w", "i", "n", "t", "e", "r">>
Summer_trailing == <<"S", "u", "m", "m", "e", "r", " ">>

d_01_09_2000 == <<"0", "1", "/", "0", "9", "/", "2", "0", "0", "0">>
d_12_09_2000 == <<"1", "2", "/", "0", "9", "/", "2", "0", "0", "0">>
d_25_02_2000 == <<"2", "5", "/", "0", "2", "/", "2", "0", "0", "0">>
d_05_03_2000 == <<"0", "5", "/", "0", "3", "/", "2", "0", "0", "0">>
d_28_12_1999 == <<"2", "8", "/", "1", "2", "/", "1", "9", "9", "9">>
d_03_01_2000 == <<"0", "3", "/", "0", "1", "/", "2", "0", "0", "0">>
d_1_9_2000 == <<"1", "/", "9", "/", "2", "0", "0", "0">>
d_31_02_2000 == <<"3", "1", "/", "0", "2", "/", "2", "0", "0", "0">>
d_01_09_00 == <<"0", "1", "/", "0", "9", "/", "0", "0">>
d_01_09_1600 == <<"0", "1", "/", "0", "9", "/", "1", "6", "0", "0">>
text_NaT == <<"N", "a", "T">>
iso_2000_09_01 == <<"2", "0", "0", "0", "-", "0", "9", "-", "0", "1">>
dashed_12_09_2000 == <<"1", "2", "-", "0", "9", "-", "2", "0", "0", "0">>

RawRow(type, country, start, end) ==
    [type |-> type, country |-> country, start |-> start, end |-> end,
     disabilities_included |-> "Spinal injury",
     countries |-> <<230>>, events |-> <<570>>,
     participants_m |-> <<3000>>, participants_f |-> <<1000>>,
     participants |-> <<4000>>,
     highlights |-> "Opening ceremony", URL |-> "https://www.paralympic.org",
     duration |-> <<110>>]

\* rows of an ordinary raw table, by 0-based position
OrdinaryRow(i) ==
    CASE i % 3 = 0 -> RawRow(summer, "Japan", d_01_09_2000, d_12_09_2000)
      [] i % 3 = 1 -> RawRow(winter_trailing, "USA", d_25_02_2000, d_05_03_2000)
      [] i % 3 = 2 -> RawRow(Summer, "UK", d_28_12_1999, d_03_01_2000)

PlainRow == RawRow(summer, "Japan", d_01_09_2000, d_12_09_2000)

\* the rows tried at one position of the table
ProbeRows ==
    {PlainRow,
     [PlainRow EXCEPT !.type = Summer_trailing],
     [PlainRow EXCEPT !.type = winter_leading],
     [PlainRow EXCEPT !.type = NaNText],
     [PlainRow EXCEPT !.country = "Korea"],
     [PlainRow EXCEPT !.country = "China"],
     [PlainRow EXCEPT !.country = "Atlantis"],
     [PlainRow EXCEPT !.country = NaNName],
     [PlainRow EXCEPT !.start = d_1_9_2000],
     [PlainRow EXCEPT !.start = iso_2000_09_01],
     [PlainRow EXCEPT !.start = d_31_02_2000],
     [PlainRow EXCEPT !.start = d_01_09_00],
     [PlainRow EXCEPT !.start = NaNText],
     [PlainRow EXCEPT !.start = d_01_09_1600],
     [PlainRow EXCEPT !.end = text_NaT],
     [PlainRow EXCEPT !.end = NaNText],
     [PlainRow EXCEPT !.end = dashed_12_09_2000],
     [PlainRow EXCEPT !.start = d_12_09_2000, !.end = d_01_09_2000],
     [PlainRow EXCEPT !.countries = NaNFloat],
     [PlainRow EXCEPT !.participants = <<4005>>]}

\* 0-based positions of the probe row: a pruned one, a kept one, the last one
ProbePositions == {missing_value_rows[1], missing_value_rows[1] + 1, MaxRows - 1}

StandardColumns ==
    <<"type", "country", "start", "end", "disabilities_included", "countries",
      "events", "participants_m", "participants_f", "participants",
      "highlights", "URL">>

ColumnLayouts ==
    {StandardColumns,
     SelectSeq(StandardColumns, LAMBDA c : c # "URL"),
     SelectSeq(StandardColumns, LAMBDA c : c # "type"),
     SelectSeq(StandardColumns, LAMBDA c : c # "country"),
     SubSeq(StandardColumns, 1, 4) \o <<"duration">>
        \o SubSeq(StandardColumns, 5, Len(StandardColumns))}

\* tables with enough rows for all but the last pruned position, and more
RowCounts == SetMax(Range(missing_value_rows))..MaxRows

RawTable(n, layout, p, probe) ==
    [cols |-> layout,
     index |-> RangeIndex(n),
     rows |-> [i \in 1..n |->
        LET r == IF i - 1 = p THEN probe ELSE OrdinaryRow(i - 1)
        IN  [c \in Range(layout) |-> r[c]]]]

NpcRow(code, name) == [Code |-> code, Name |-> name, Region |-> "Region"]

NpcFile(records) ==
    [exists |-> TRUE, header |-> <<"Code", "Name", "Region">>, records |-> records]

ReferenceFiles ==
    {NpcFile(<<NpcRow("GBR", "Great Britain"),
               NpcRow("USA", "United States of America"),
               NpcRow("JPN", "Japan"),
               NpcRow("KOR", "Republic of Korea")>>),
     NpcFile(<<NpcRow("GBR", "Great Britain"),
               NpcRow("JPN", "Japan"),
               NpcRow("GBX", "Great Britain"),
               NpcRow("USA", "United States of America")>>),
     NpcFile(<<NpcRow("UKX", "UK"),
               NpcRow("GBR", "Great Britain"),
               NpcRow("PRK", "Korea"),
               NpcRow("JPN", "Japan")>>),
     NpcFile(<<NpcRow("XXX", NaNName),
               NpcRow("GBR", "Great Britain"),
               NpcRow("JPN", "Japan")>>)}

-----------------------------------------------------------------------------
(* The state before the first call *)

Init ==
    /\ \E n \in RowCounts, layout \in ColumnLayouts,
          p \in ProbePositions, probe \in ProbeRows :
          /\ layout # StandardColumns => (probe = PlainRow /\ p = missing_value_rows[1])
          /\ p >= n => probe = PlainRow
          /\ df = RawTable(n, layout, p, probe)
    /\ npc_codes \in ReferenceFiles
    /\ df_prepared = NoFrame
    /\ npc_codes_csv_df = NoFrame
    /\ prepared_file = NoFile
    /\ returned = NoFrame
    /\ pc = "idle"
    /\ failed_at = ""
    /\ run = 0
    /\ prev_returned = NoFrame
    /\ prev_file = NoFile

-----------------------------------------------------------------------------
(* prepare_paralympics_data, statement by statement *)

Raise(step) ==
    /\ pc' = "aborted"
    /\ failed_at' = step

Goto(step) ==
    /\ pc' = step
    /\ UNCHANGED failed_at

\* prepared_df = prepare_paralympics_data(paralympics_csv_df)
Call ==
    /\ pc \in {"idle", "done"}
    /\ run < MaxRuns
    /\ run' = run + 1
    /\ prev_returned' = returned
    /\ prev_file' = prepared_file
    /\ df_prepared' = NoFrame
    /\ npc_codes_csv_df' = NoFrame
    /\ returned' = NoFrame
    /\ Goto("drop_columns")
    /\ UNCHANGED <<df, npc_codes, prepared_file>>

\* df_prepared = df.drop(columns=['URL', 'disabilities_included', 'highlights'])
drop_columns ==
    /\ pc = "drop_columns"
    /\ IF MissingLabels(df.cols, unwanted_columns) # {}
       THEN Raise("drop_columns") /\ UNCHANGED <<df, df_prepared>>
       ELSE /\ df' = DataFrameDrop(df, unwanted_columns).self
            /\ df_prepared' = DataFrameDrop(df, unwanted_columns).result
            /\ Goto("drop_rows")
    /\ UNCHANGED <<npc_codes, npc_codes_csv_df, prepared_file, returned, run,
                   prev_returned, prev_file>>

\* df_prepared = df_prepared.drop(index=[0, 17, 31])
drop_rows ==
    /\ pc = "drop_rows"
    /\ IF MissingLabels(df_prepared.index, missing_value_rows) # {}
       THEN Raise("drop_rows") /\ UNCHANGED df_prepared
       ELSE /\ df_prepared' = DropIndex(df_prepared, missing_value_rows)
            /\ Goto("reset_index")
    /\ UNCHANGED <<df, npc_codes, npc_codes_csv_df, prepared_file, returned, run,
                   prev_returned, prev_file>>

\* df_prepared = df_prepared.reset_index(drop=True)
reset_index ==
    /\ pc = "reset_index"
    /\ df_prepared' = ResetIndex(df_prepared)
    /\ Goto("fix_type")
    /\ UNCHANGED <<df, npc_codes, npc_codes_csv_df, prepared_file, returned, run,
                   prev_returned, prev_file>>

\* df_prepared.loc[df_prepared['type'] == 'Summer', 'type'] = 'summer'
fix_type ==
    /\ pc = "fix_type"
    /\ IF "type" \notin Range(df_prepared.cols)
       THEN Raise("fix_type") /\ UNCHANGED df_prepared
       ELSE /\ df_prepared' = LocAssign(df_prepared, "type", Summer, summer)
            /\ Goto("strip_type")
    /\ UNCHANGED <<df, npc_codes, npc_codes_csv_df, prepared_file, returned, run,
                   prev_returned, prev_file>>

\* df_prepared['type'] = df_prepared['type'].str.strip()
strip_type ==
    /\ pc = "strip_type"
    /\ df_prepared' = StripColumn(df_prepared, "type")
    /\ Goto("astype")
    /\ UNCHANGED <<df, npc_codes, npc_codes_csv_df, prepared_file, returned, run,
                   prev_returned, prev_file>>

\* for col in columns_to_change: df_prepared[col] = df_prepared[col].astype('Int64')
astype ==
    /\ pc = "astype"
    /\ IF AstypeRaises(df_prepared, columns_to_change)
       THEN Raise("astype") /\ UNCHANGED df_prepared
       ELSE /\ df_prepared' = AstypeInt64(df_prepared, columns_to_change)
            /\ Goto("to_datetime_start")
    /\ UNCHANGED <<df, npc_codes, npc_codes_csv_df, prepared_file, returned, run,
                   prev_returned, prev_file>>

\* df_prepared['start'] = pd.to_datetime(df_prepared['start'], format='%d/%m/%Y')
to_datetime_start ==
    /\ pc = "to_datetime_start"
    /\ IF ToDatetimeRaises(df_prepared, "start")
       THEN Raise("to_datetime_start") /\ UNCHANGED df_prepared
       ELSE /\ df_prepared' = ToDatetimeColumn(df_prepared, "start")
            /\ Goto("to_datetime_end")
    /\ UNCHANGED <<df, npc_codes, npc_codes_csv_df, prepared_file, returned, run,
                   prev_returned, prev_file>>

\* df_prepared['end'] = pd.to_datetime(df_prepared['end'], format='%d/%m/%Y')
to_datetime_end ==
    /\ pc = "to_datetime_end"
    /\ IF ToDatetimeRaises(df_prepared, "end")
       THEN Raise("to_datetime_end") /\ UNCHANGED df_prepared
       ELSE /\ df_prepared' = ToDatetimeColumn(df_prepared, "end")
            /\ Goto("add_duration")
    /\ UNCHANGED <<df, npc_codes, npc_codes_csv_df, prepared_file, returned, run,
                   prev_returned, prev_file>>

\* duration_values = (df_prepared['end'] - df_prepared['start']).dt.days.astype('Int64')
\* df_prepared.insert(df_prepared.columns.get_loc('end') + 1, 'duration', duration_values)
add_duration ==
    /\ pc = "add_duration"
    /\ LET duration_values == [i \in 1..Len(df_prepared.rows) |->
               DurationDays(df_prepared.rows[i]["start"], df_prepared.rows[i]["end"])]
       IN  IF "duration" \in Range(df_prepared.cols)
           THEN Raise("add_duration") /\ UNCHANGED df_prepared
           ELSE /\ df_prepared' = Insert(df_prepared, GetLoc(df_prepared.cols, "end") + 1,
                                         "duration", duration_values)
                /\ Goto("read_codes")
    /\ UNCHANGED <<df, npc_codes, npc_codes_csv_df, prepared_file, returned, run,
                   prev_returned, prev_file>>

\* npc_codes_csv_df = pd.read_csv(npc_codes_file_csv, ..., usecols=['Code', 'Name'])
read_codes ==
    /\ pc = "read_codes"
    /\ IF ~npc_codes.exists \/ MissingLabels(npc_codes.header, usecols) # {}
       THEN Raise("read_codes") /\ UNCHANGED npc_codes_csv_df
       ELSE /\ npc_codes_csv_df' = ReadCsv(npc_codes, usecols)
            /\ Goto("replace")
    /\ UNCHANGED <<df, npc_codes, df_prepared, prepared_file, returned, run,
                   prev_returned, prev_file>>

\* df_prepared['country'] = df_prepared['country'].replace(to_replace=replacement_names)
replace ==
    /\ pc = "replace"
    /\ IF "country" \notin Range(df_prepared.cols)
       THEN Raise("replace") /\ UNCHANGED df_prepared
       ELSE /\ df_prepared' = ReplaceColumn(df_prepared, "country", replacement_names)
            /\ Goto("merge")
    /\ UNCHANGED <<df, npc_codes, npc_codes_csv_df, prepared_file, returned, run,
                   prev_returned, prev_file>>

\* df_prepared = df_prepared.merge(npc_codes_csv_df, how='left',
\*                                 left_on='country', right_on='Name')
merge ==
    /\ pc = "merge"
    /\ df_prepared' = MergeLeft(df_prepared, npc_codes_csv_df, "country", "Name")
    /\ Goto("drop_name")
    /\ UNCHANGED <<df, npc_codes, npc_codes_csv_df, prepared_file, returned, run,
                   prev_returned, prev_file>>

\* df_prepared = df_prepared.drop(columns=['Name'])
drop_name ==
    /\ pc = "drop_name"
    /\ IF MissingLabels(df_prepared.cols, <<"Name">>) # {}
       THEN Raise("drop_name") /\ UNCHANGED df_prepared
       ELSE /\ df_prepared' = DataFrameDrop(df_prepared, <<"Name">>).result
            /\ Goto("to_csv")
    /\ UNCHANGED <<df, npc_codes, npc_codes_csv_df, prepared_file, returned, run,
                   prev_returned, prev_file>>

\* df_prepared.to_csv(prepared_file_csv, index=False)
to_csv ==
    /\ pc = "to_csv"
    /\ prepared_file' = WriteFile(prepared_file, ToCsv(df_prepared, FALSE))
    /\ Goto("return")
    /\ UNCHANGED <<df, npc_codes, df_prepared, npc_codes_csv_df, returned, run,
                   prev_returned, prev_file>>

\* return df_prepared
return ==
    /\ pc = "return"
    /\ returned' = df_prepared
    /\ Goto("done")
    /\ UNCHANGED <<df, npc_codes, df_prepared, npc_codes_csv_df, prepared_file, run,
                   prev_returned, prev_file>>

Next ==
    \/ Call
    \/ drop_columns
    \/ drop_rows
    \/ reset_index
    \/ fix_type
    \/ strip_type
    \/ astype
    \/ to_datetime_start
    \/ to_datetime_end
    \/ add_duration
    \/ read_codes
    \/ replace
    \/ merge
    \/ drop_name
    \/ to_csv
    \/ return

Spec == Init /\ [][Next]_vars

-----------------------------------------------------------------------------
(* Vocabulary of the properties *)

Completed == pc = "done"

\* 1-based positions of the raw rows that row pruning keeps
Retained ==
    {i \in 1..Len(df.rows) : \A k \in 1..Len(missing_value_rows) :
        i - 1 # missing_value_rows[k]}

AfterDateParsing ==
    {"add_duration", "read_codes", "replace", "merge", "drop_name", "to_csv",
     "return", "done"}

NoLeadingOrTrailingWhitespace(t) ==
    t = <<>> \/ (t[1] \notin Whitespace /\ t[Len(t)] \notin Whitespace)

\* proleptic Gregorian ordinal of a date, counted month by month
Ordinal(ts) ==
    LET y == ts[1] - 1
    IN  y * 365 + y \div 4 - y \div 100 + y \div 400
        + SeqSum([k \in 1..(ts[2] - 1) |-> DaysInMonth(ts[1], k)]) + ts[3]

\* the texts that denote day d, month m under %d and %m
DayTexts(d) ==
    {Pad2(d)} \cup (IF d < 10 THEN {NatText(d), <<" ">> \o NatText(d)} ELSE {})

MonthTexts(m) == {Pad2(m)} \cup (IF m < 10 THEN {NatText(m)} ELSE {})

\* v is the text of a calendar date written day/month/year that a
\* datetime64[ns] holds
WrittenAsDayMonthYear(v) ==
    /\ Len(v) >= 5
    /\ LET yt == SubSeq(v, Len(v) - 3, Len(v))
       IN  /\ AllDigits(yt)
           /\ \E m \in 1..12 : \E mt \in MonthTexts(m) :
                LET tail == <<"/">> \o mt \o <<"/">> \o yt
                IN  /\ Len(v) > Len(tail)
                    /\ SubSeq(v, Len(v) - Len(tail) + 1, Len(v)) = tail
                    /\ \E d \in 1..DaysInMonth(Number(yt), m) :
                          /\ SubSeq(v, 1, Len(v) - Len(tail)) \in DayTexts(d)
                          /\ Ordinal(<<Number(yt), m, d>>) - Ordinal(<<1970, 1, 1>>)
                                \in TimestampDays

RetainedDates(col) == {df.rows[i][col] : i \in Retained}

\* dd/mm/yyyy, two digits, two digits, four digits
TenCharacterDate(v) ==
    /\ Len(v) = 10
    /\ v[3] = "/" /\ v[6] = "/"
    /\ AllDigits(SubSeq(v, 1, 2)) /\ AllDigits(SubSeq(v, 4, 5))
    /\ AllDigits(SubSeq(v, 7, 10))

DateOf(v) == <<Number(SubSeq(v, 7, 10)), Number(SubSeq(v, 4, 5)), Number(SubSeq(v, 1, 2))>>

ColumnAfter(cols, label) ==
    IF IndexOf(cols, label) \in 1..(Len(cols) - 1)
    THEN cols[IndexOf(cols, label) + 1] ELSE ""

ReferenceNames == {npc_codes.records[k]["Name"] : k \in 1..Len(npc_codes.records)}

-----------------------------------------------------------------------------
(* Properties *)

\* C1: when prepare_paralympics_data completes, the returned table has the raw
\* table's row count minus the number of pruned row positions, whatever the
\* reference table (its Name keys need not be unique).
C1_RowCountIsRawMinusPruned ==
    Completed => Len(returned.rows) = Len(df.rows) - Len(missing_value_rows)

\* C2: in every row of the prepared table 'type' has no leading or trailing
\* whitespace and is never the rejected spelling 'Summer' (so 'Summer' followed
\* by a space ends up as 'summer').
C2_TypeIsCanonical ==
    Completed =>
        \A i \in 1..Len(returned.rows) :
            LET t == returned.rows[i]["type"]
            IN  t # NaNText => (t # Summer /\ NoLeadingOrTrailingWhitespace(t))

\* C3: the reference join is a left join: every row of the main table appears in
\* the joined table with its cells unchanged, a row whose country matches no
\* reference Name has a missing Code, and no later statement removes a row.
C3_LeftJoinKeepsEveryRow ==
    [][/\ pc = "merge" =>
            \A i \in 1..Len(df_prepared.rows) :
                \E j \in 1..Len(df_prepared'.rows) :
                    /\ \A c \in DOMAIN df_prepared.rows[i] :
                          df_prepared'.rows[j][c] = df_prepared.rows[i][c]
                    /\ df_prepared.rows[i]["country"] \notin ReferenceNames
                          => df_prepared'.rows[j]["Code"] = NaNName
       /\ pc = "drop_name" => Len(df_prepared'.rows) = Len(df_prepared.rows)
       /\ pc = "to_csv" => Len(prepared_file'.records) = Len(df_prepared.rows)
       /\ pc = "return" => Len(returned'.rows) = Len(df_prepared.rows)]_vars

C3_Witness ==
    /\ Completed
    /\ \E j \in 1..Len(returned.rows) :
          /\ returned.rows[j]["Code"] = NaNName
          /\ returned.rows[j]["country"] = "Atlantis"

C5_DurationIsDayDifferenceAfterEnd ==
    Completed =>
        /\ ColumnAfter(returned.cols, "end") = "duration"
        /\ ColumnAfter(prepared_file.header, "end") = "duration"
        /\ \A j \in 1..Len(returned.rows) :
              LET r == returned.rows[j]
              IN  /\ (r["start"] # NaT /\ r["end"] # NaT)
                        => r["duration"] = <<Ordinal(r["end"]) - Ordinal(r["start"])>>
                  /\ (r["start"] = <<2000, 9, 1>> /\ r["end"] = <<2000, 9, 12>>)
                        => r["duration"] = <<11>>
        /\ \A i \in Retained :
              LET q == df.rows[i]
              IN  (TenCharacterDate(q["start"]) /\ TenCharacterDate(q["end"])) =>
                      \E j \in 1..Len(returned.rows) :
                          /\ returned.rows[j]["start"] = DateOf(q["start"])
                          /\ returned.rows[j]["end"] = DateOf(q["end"])
                          /\ returned.rows[j]["duration"] =
                                <<Ordinal(DateOf(q["end"])) - Ordinal(DateOf(q["start"]))>>

C5_Witness ==
    /\ Completed
    /\ \E j \in 1..Len(returned.rows) :
          /\ returned.rows[j]["start"] = <<1999, 12, 28>>
          /\ returned.rows[j]["end"] = <<2000, 1, 3>>
          /\ returned.rows[j]["duration"] = <<6>>
    /\ \E j \in 1..Len(returned.rows) : returned.rows[j]["duration"] = <<-11>>

\* C6: the country rewrites are applied before the join: a raw 'UK' row joined
\* against Name='Great Britain', Code='GBR' gives a row with Code 'GBR', every
\* rewritten name is matched under its rewritten form and never under its raw
\* form.
C6_RewrittenNamesAreJoined ==
    Completed =>
        /\ \A i \in Retained :
              df.rows[i]["country"] \in DOMAIN replacement_names =>
                  \A k \in 1..Len(npc_codes.records) :
                      npc_codes.records[k]["Name"] = replacement_names[df.rows[i]["country"]]
                      => \E j \in 1..Len(returned.rows) :
                            /\ returned.rows[j]["country"] = npc_codes.records[k]["Name"]
                            /\ returned.rows[j]["Code"] = npc_codes.records[k]["Code"]
        /\ \A j \in 1..Len(returned.rows) :
              /\ returned.rows[j]["country"] \notin DOMAIN replacement_names
              /\ returned.rows[j]["Code"] # NaNName =>
                    \E k \in 1..Len(npc_codes.records) :
                        /\ npc_codes.records[k]["Name"] = returned.rows[j]["country"]
                        /\ npc_codes.records[k]["Code"] = returned.rows[j]["Code"]

C6_Witness ==
    /\ Completed
    /\ \E i \in Retained : df.rows[i]["country"] = "UK"
    /\ \E k \in 1..Len(npc_codes.records) : npc_codes.records[k]["Name"] = "UK"
    /\ \E j \in 1..Len(returned.rows) :
          /\ returned.rows[j]["country"] = "Great Britain"
          /\ returned.rows[j]["Code"] = "GBR"

\* C7: the prepared table, returned and persisted, has none of the columns
\* 'URL', 'disabilities_included', 'highlights' and no column 'Name'.
C7_RemovedColumnsAreAbsent ==
    LET removed == Range(unwanted_columns) \cup {"Name"}
    IN  /\ Completed =>
              /\ Range(returned.cols) \cap removed = {}
              /\ \A j \in 1..Len(returned.rows) :
                    DOMAIN returned.rows[j] \cap removed = {}
        /\ prepared_file.exists => Range(prepared_file.header) \cap removed = {}

C7_Witness ==
    /\ Completed
    /\ Range(unwanted_columns) \subseteq Range(df.cols)
    /\ prepared_file.exists
    /\ "Code" \in Range(prepared_file.header)

\* C8: when the input lacks one of the columns to drop, or one of the row
\* positions to drop, the run stops at that statement: no later statement runs,
\* nothing is returned and no file is written.
C8_FailsFastOnMissingColumnOrRow ==
    LET columnMissing == \E c \in Range(unwanted_columns) : c \notin Range(df.cols)
        rowMissing == \E k \in 1..Len(missing_value_rows) :
                          missing_value_rows[k] >= Len(df.rows)
    IN  /\ columnMissing =>
              /\ pc \in {"idle", "drop_columns", "aborted"}
              /\ pc = "aborted" => failed_at = "drop_columns"
              /\ df_prepared = NoFrame
        /\ (~columnMissing /\ rowMissing) =>
              /\ pc \in {"idle", "drop_columns", "drop_rows", "aborted"}
              /\ pc = "aborted" => failed_at = "drop_rows"
        /\ (columnMissing \/ rowMissing) =>
              (~prepared_file.exists /\ returned = NoFrame)

C8_Witness ==
    /\ pc = "aborted"
    /\ failed_at = "drop_rows"
    /\ Len(df.rows) = SetMax(Range(missing_value_rows))
    /\ ~prepared_file.exists

\* C9: a second call on the same raw table with the same reference file
\* completes like the first and returns the same table and leaves the same file.
C9_SecondRunIsIdentical ==
    run >= 2 =>
        /\ pc # "aborted"
        /\ Completed => (returned = prev_returned /\ prepared_file = prev_file)

C9_Witness ==
    /\ run = 2
    /\ Completed
    /\ prev_file.exists
    /\ Len(prepared_file.records) > 0

\* C10: no statement of prepare_paralympics_data changes the caller's raw table,
\* whether the call completes or stops at a statement.
C10_RawTableUnchanged == [][df' = df]_vars

C10_Witness ==
    /\ Completed
    /\ "URL" \in Range(df.cols)
    /\ "URL" \notin Range(returned.cols)
    /\ Len(returned.rows) < Len(df.rows)
    /\ \E i \in Retained : df.rows[i]["type"] = Summer

====
